---- MODULE Spec2Model ----
(***************************************************************************)
(* A model of three parts of the ritual binding generator:                 *)
(*   - CppOperator::info / CppOperator::c_name   (cpp_operators.rs)        *)
(*   - RustName and RustType                     (rust_type.rs)            *)
(*   - ProgressBar                               (ritual_common/utils.rs)  *)
(* Each part has its own specification (SpecOp, SpecName, SpecType,        *)
(* SpecCaption, SpecPB); the variables of the other parts stay at their    *)
(* idle values.                                                            *)
(*                                                                         *)
(* Option<T> is modelled as a sequence: <<>> is None and <<x>> is Some(x). *)
(* String is a TLA+ string; format!/join are string concatenation (\o).    *)
(***************************************************************************)
EXTENDS Integers, Sequences, FiniteSets

VARIABLES
    operands,    \* the CppOperator values the calls below are made on, one per slot
    infoRes,     \* per slot: Option of the OperatorInfo returned by info()
    cnameRes,    \* per slot: outcome of c_name()
    parts,       \* argument of RustName::new
    name,        \* Option<RustName>: the value RustName::new returned
    nameCalls,   \* results of crate_name / last_name / full_name on `name`
    namePanic,   \* an assertion of RustName fired
    vals,        \* RustType values alive: the input, then every value returned
    lastCall,    \* Option: record of the last with_lifetime call
    captionRes,  \* Option: record of the last caption call
    typePanic,   \* the assertion of with_lifetime fired (the thread unwinds)
    inner,       \* ProgressBarInner behind the Arc<Mutex<..>>
    holder,      \* thread holding the MutexGuard, 0 when the mutex is free
    poisoned,    \* the mutex is poisoned (a holder panicked)
    pc,          \* per thread: position inside ProgressBar::add
    arg,         \* per thread: the n of the call in progress
    tmp,         \* per thread: the value of pos read by `self.pos += n`
    calls,       \* per thread: number of add calls started
    requested    \* sum of every n passed to add so far

opVars   == <<operands, infoRes, cnameRes>>
nameVars == <<parts, name, nameCalls, namePanic>>
typeVars == <<vals, lastCall, captionRes, typePanic>>
pbVars   == <<inner, holder, poisoned, pc, arg, tmp, calls, requested>>
vars     == <<opVars, nameVars, typeVars, pbVars>>

None == << >>
Some(x) == <<x>>

(***************************************************************************)
(* Bounds                                                                  *)
(***************************************************************************)
NumCppTypes == 2      \* distinct payload types of CppOperator::Conversion
MaxParts == 3         \* longest segment list handed to RustName::new
MaxGenericArgs == 2   \* longest generic_arguments list
MaxCalls == 2         \* with_lifetime calls in one chain
NumThreads == 2       \* threads holding a clone of the ProgressBar
MaxAdds == 2          \* add calls per thread

(***************************************************************************)
(* cpp_operators.rs                                                        *)
(***************************************************************************)
CppTypes == 1..NumCppTypes

UnitVariants ==
    { "Assignment", "Addition", "Subtraction", "UnaryPlus", "UnaryMinus",
      "Multiplication", "Division", "Modulo", "PrefixIncrement",
      "PostfixIncrement", "PrefixDecrement", "PostfixDecrement", "EqualTo",
      "NotEqualTo", "GreaterThan", "LessThan", "GreaterThanOrEqualTo",
      "LessThanOrEqualTo", "LogicalNot", "LogicalAnd", "LogicalOr",
      "BitwiseNot", "BitwiseAnd", "BitwiseOr", "BitwiseXor",
      "BitwiseLeftShift", "BitwiseRightShift", "AdditionAssignment",
      "SubtractionAssignment", "MultiplicationAssignment",
      "DivisionAssignment", "ModuloAssignment", "BitwiseAndAssignment",
      "BitwiseOrAssignment", "BitwiseXorAssignment",
      "BitwiseLeftShiftAssignment", "BitwiseRightShiftAssignment",
      "Subscript", "Indirection", "AddressOf", "StructureDereference",
      "PointerToMember", "FunctionCall", "Comma", "New", "NewArray",
      "Delete", "DeleteArray" }

\* enum CppOperator: Conversion carries a CppType, the other variants nothing.
CppOperator ==
    { [variant |-> "Conversion", payload |-> Some(t)] : t \in CppTypes }
    \cup { [variant |-> v, payload |-> None] : v \in UnitVariants }

\* oi as it would be with allows_variable_arguments copied from the
\* FunctionCall arm.
oi_variable(suffix, count) ==
    [ function_name_suffix |-> Some(suffix),
      arguments_count |-> count,
      allows_variable_arguments |-> TRUE ]

\* oi as it would be if it dropped its count argument.
oi_ignores_count(suffix, count) ==
    [ function_name_suffix |-> Some(suffix),
      arguments_count |-> 2,
      allows_variable_arguments |-> FALSE ]

\* fn oi(suffix, count)
oi(suffix, count) ==
    [ function_name_suffix |-> Some(suffix),
      arguments_count |-> count,
      allows_variable_arguments |-> FALSE ]

\* CppOperator::info: the match of lines 124-186, arm by arm.
info(self) ==
    CASE self.variant = "Conversion" ->
            [ function_name_suffix |-> None,
              arguments_count |-> 1,
              allows_variable_arguments |-> FALSE ]
      [] self.variant = "Assignment" -> oi("=", 2)
      [] self.variant = "Addition" -> oi("+", 2)
      [] self.variant = "Subtraction" -> oi("-", 2)
      [] self.variant = "UnaryPlus" -> oi("+", 1)
      [] self.variant = "UnaryMinus" -> oi("-", 1)
      [] self.variant = "Multiplication" -> oi("*", 2)
      [] self.variant = "Division" -> oi("/", 2)
      [] self.variant = "Modulo" -> oi("%", 2)
      [] self.variant = "PrefixIncrement" -> oi("++", 1)
      [] self.variant = "PostfixIncrement" -> oi("++", 2)
      [] self.variant = "PrefixDecrement" -> oi("--", 1)
      [] self.variant = "PostfixDecrement" -> oi("--", 2)
      [] self.variant = "EqualTo" -> oi("==", 2)
      [] self.variant = "NotEqualTo" -> oi("!=", 2)
      [] self.variant = "GreaterThan" -> oi(">", 2)
      [] self.variant = "LessThan" -> oi("<", 2)
      [] self.variant = "GreaterThanOrEqualTo" -> oi(">=", 2)
      [] self.variant = "LessThanOrEqualTo" -> oi("<=", 2)
      [] self.variant = "LogicalNot" -> oi("!", 1)
      [] self.variant = "LogicalAnd" -> oi("&&", 2)
      [] self.variant = "LogicalOr" -> oi("||", 2)
      [] self.variant = "BitwiseNot" -> oi("~", 1)
      [] self.variant = "BitwiseAnd" -> oi("&", 2)
      [] self.variant = "BitwiseOr" -> oi("|", 2)
      [] self.variant = "BitwiseXor" -> oi("^", 2)
      [] self.variant = "BitwiseLeftShift" -> oi("<<", 2)
      [] self.variant = "BitwiseRightShift" -> oi(">>", 2)
      [] self.variant = "AdditionAssignment" -> oi("+=", 2)
      [] self.variant = "SubtractionAssignment" -> oi("-=", 2)
      [] self.variant = "MultiplicationAssignment" -> oi("*=", 2)
      [] self.variant = "DivisionAssignment" -> oi("/=", 2)
      [] self.variant = "ModuloAssignment" -> oi("%=", 2)
      [] self.variant = "BitwiseAndAssignment" -> oi("&=", 2)
      [] self.variant = "BitwiseOrAssignment" -> oi("|=", 2)
      [] self.variant = "BitwiseXorAssignment" -> oi("^=", 2)
      [] self.variant = "BitwiseLeftShiftAssignment" -> oi("<<=", 2)
      [] self.variant = "BitwiseRightShiftAssignment" -> oi(">>=", 2)
      [] self.variant = "Subscript" -> oi("[]", 2)
      [] self.variant = "Indirection" -> oi("*", 1)
      [] self.variant = "AddressOf" -> oi("&", 1)
      [] self.variant = "StructureDereference" -> oi("->", 1)
      [] self.variant = "PointerToMember" -> oi("->*", 2)
      [] self.variant = "FunctionCall" ->
            [ function_name_suffix |-> Some("()"),
              arguments_count |-> 0,
              allows_variable_arguments |-> TRUE ]
      [] self.variant = "Comma" -> oi(",", 2)
      [] self.variant = "New" -> oi("new", 2)
      [] self.variant = "NewArray" -> oi("new[]", 2)
      [] self.variant = "Delete" -> oi("delete", 2)
      [] self.variant = "DeleteArray" -> oi("delete[]", 2)

\* CppOperator::c_name: the body is unimplemented!(), which panics for every
\* operator; no &'static str is ever returned.
c_name(self) == [ status |-> "Panicked", token |-> "" ]

Slots == {1, 2}
NotCalled == [ status |-> "NotCalled", token |-> "" ]

OpInit ==
    /\ operands \in [Slots -> CppOperator]
    /\ infoRes = [s \in Slots |-> None]
    /\ cnameRes = [s \in Slots |-> NotCalled]

OpIdle ==
    /\ operands = [s \in Slots |-> [variant |-> "Assignment", payload |-> None]]
    /\ infoRes = [s \in Slots |-> None]
    /\ cnameRes = [s \in Slots |-> NotCalled]

\* A caller evaluates operands[s].info().
Info(s) ==
    /\ infoRes[s] = None
    /\ infoRes' = [infoRes EXCEPT ![s] = Some(info(operands[s]))]
    /\ UNCHANGED <<operands, cnameRes, nameVars, typeVars, pbVars>>

\* A caller evaluates operands[s].c_name().
CName(s) ==
    /\ cnameRes[s].status = "NotCalled"
    /\ cnameRes' = [cnameRes EXCEPT ![s] = c_name(operands[s])]
    /\ UNCHANGED <<operands, infoRes, nameVars, typeVars, pbVars>>

(***************************************************************************)
(* rust_type.rs: RustName                                                  *)
(***************************************************************************)
\* The outcome of a call that may hit an assert!/unwrap: it either returns
\* a value or panics and returns nothing.
Ok(v) == [ panicked |-> FALSE, value |-> Some(v) ]
Panic == [ panicked |-> TRUE, value |-> None ]

Segments == { "foo", "Bar", "other" }
SegmentLists == UNION { [1..n -> Segments] : n \in 0..MaxParts }

\* [String]::join(sep)
RECURSIVE join(_, _)
join(v, sep) ==
    IF Len(v) = 0 THEN ""
    ELSE IF Len(v) = 1 THEN v[1]
    ELSE v[1] \o sep \o join(Tail(v), sep)

\* RustName::new without its assert.
RustName_new_unchecked(ps) == Ok([parts |-> ps])

\* RustName::new
RustName_new(ps) ==
    IF Len(ps) > 0 THEN Ok([parts |-> ps]) ELSE Panic

\* RustName::crate_name
crate_name(self) ==
    IF ~(Len(self.parts) > 0) THEN Panic
    ELSE IF Len(self.parts) > 1 THEN Ok(Some(self.parts[1]))
    ELSE Ok(None)

\* RustName::last_name: parts.last().unwrap()
last_name(self) ==
    IF Len(self.parts) = 0 THEN Panic
    ELSE Ok(self.parts[Len(self.parts)])

\* full_name comparing current_crate with the first segment directly, without
\* asking crate_name whether the name has a crate at all.
full_name_first_segment(self, current_crate) ==
    IF current_crate # None /\ current_crate[1] = self.parts[1]
    THEN Ok("::" \o join(SubSeq(self.parts, 2, Len(self.parts)), "::"))
    ELSE Ok(join(self.parts, "::"))

\* RustName::full_name; && evaluates its operands left to right and stops at
\* the first false one, so crate_name is called only when current_crate is Some.
full_name(self, current_crate) ==
    IF current_crate = None THEN Ok(join(self.parts, "::"))
    ELSE IF crate_name(self).panicked THEN Panic
    ELSE IF /\ crate_name(self).value[1] # None
            /\ current_crate[1] = crate_name(self).value[1][1]
         THEN Ok("::" \o join(SubSeq(self.parts, 2, Len(self.parts)), "::"))
         ELSE Ok(join(self.parts, "::"))

NoNameCalls == [ crate |-> None, last |-> None, full |-> None ]

NameInit ==
    /\ parts \in SegmentLists
    /\ name = None
    /\ nameCalls = NoNameCalls
    /\ namePanic = FALSE

NameIdle ==
    /\ parts = << >>
    /\ name = None
    /\ nameCalls = NoNameCalls
    /\ namePanic = FALSE

\* RustName::new(parts)
New ==
    /\ name = None /\ ~namePanic
    /\ name' = RustName_new(parts).value
    /\ namePanic' = RustName_new(parts).panicked
    /\ UNCHANGED <<parts, nameCalls, opVars, typeVars, pbVars>>

\* name.crate_name()
CrateName ==
    /\ name # None /\ ~namePanic /\ nameCalls.crate = None
    /\ nameCalls' = [nameCalls EXCEPT !.crate = crate_name(name[1]).value]
    /\ namePanic' = crate_name(name[1]).panicked
    /\ UNCHANGED <<parts, name, opVars, typeVars, pbVars>>

\* name.last_name()
LastName ==
    /\ name # None /\ ~namePanic /\ nameCalls.last = None
    /\ nameCalls' = [nameCalls EXCEPT !.last = last_name(name[1]).value]
    /\ namePanic' = last_name(name[1]).panicked
    /\ UNCHANGED <<parts, name, opVars, typeVars, pbVars>>

Scopes == { None } \cup { Some(s) : s \in Segments }

\* name.full_name(current_crate)
FullName(current_crate) ==
    /\ name # None /\ ~namePanic
    /\ LET o == full_name(name[1], current_crate)
       IN /\ nameCalls' = [nameCalls EXCEPT !.full =
                 IF o.panicked THEN None
                 ELSE Some([current_crate |-> current_crate, result |-> o.value[1]])]
          /\ namePanic' = o.panicked
    /\ UNCHANGED <<parts, name, opVars, typeVars, pbVars>>

(***************************************************************************)
(* rust_type.rs: RustTypeIndirection and RustType                          *)
(***************************************************************************)
Lifetimes == { "a", "b" }

\* enum RustTypeIndirection
RustTypeIndirection ==
    { [kind |-> "None"], [kind |-> "Ptr"], [kind |-> "PtrPtr"] }
    \cup { [kind |-> "Ref", lifetime |-> l] :
             l \in { None } \cup { Some(x) : x \in Lifetimes } }

BaseNames ==
    { [parts |-> <<"Vec">>], [parts |-> <<"std", "Vec">>],
      [parts |-> <<"foo", "Widget">>] }

Void == [ kind |-> "Void" ]

NonVoid(b, g, c, i, o) ==
    [ kind |-> "NonVoid", base |-> b, generic_arguments |-> g,
      is_const |-> c, indirection |-> i, is_option |-> o ]

I32 == NonVoid([parts |-> <<"I32">>], None, FALSE, [kind |-> "None"], FALSE)

\* The values used as generic arguments: Void, a plain type and a type that
\* is generic itself.
ArgTypes ==
    { Void, I32,
      NonVoid([parts |-> <<"std", "Vec">>], Some(<<I32>>), TRUE,
              [kind |-> "Ref", lifetime |-> None], FALSE) }

GenericArguments ==
    { None } \cup
    { Some(v) : v \in UNION { [1..n -> ArgTypes] : n \in 0..MaxGenericArgs } }

\* enum RustType
RustType ==
    { Void } \cup
    { NonVoid(b, g, c, i, o) :
        b \in BaseNames, g \in GenericArguments, c \in BOOLEAN,
        i \in RustTypeIndirection, o \in BOOLEAN }

\* utils::JoinWithString::join on an iterator of strings (imported at the top
\* of rust_type.rs; its definition is outside the files modelled here): the
\* items in order, separated by sep.
RECURSIVE JoinWithString_join(_, _)
JoinWithString_join(items, sep) ==
    IF Len(items) = 0 THEN ""
    ELSE IF Len(items) = 1 THEN items[1]
    ELSE items[1] \o sep \o JoinWithString_join(Tail(items), sep)

\* Option::unwrap_or
unwrap_or(opt, default) == IF opt = None THEN default ELSE opt[1]

\* caption built from the whole base name instead of its last segment.
RECURSIVE caption_whole_base(_)
caption_whole_base(self) ==
    IF self.kind = "Void" THEN None
    ELSE LET name0 == join(self.base.parts, "_")
         IN IF self.generic_arguments # None
            THEN LET args == self.generic_arguments[1]
                 IN Some(name0 \o "_" \o
                         JoinWithString_join([k \in 1..Len(args) |->
                                 unwrap_or(caption_whole_base(args[k]), "")], "_"))
            ELSE Some(name0)

\* RustType::caption. base.last_name() cannot panic here: every base of
\* RustType above has at least one segment.
RECURSIVE caption(_)
caption(self) ==
    IF self.kind = "Void" THEN None
    ELSE LET name0 == last_name(self.base).value[1]
         IN IF self.generic_arguments # None
            THEN LET args == self.generic_arguments[1]
                 IN Some(name0 \o "_" \o
                         JoinWithString_join([k \in 1..Len(args) |->
                                 unwrap_or(caption(args[k]), "")], "_"))
            ELSE Some(name0)

\* with_lifetime without its assert: a present lifetime is overwritten.
with_lifetime_no_assert(self, new_lifetime) ==
    IF self.kind = "NonVoid" /\ self.indirection.kind = "Ref"
    THEN [ panicked |-> FALSE,
           value |-> Some([self EXCEPT !.indirection.lifetime =
                                          Some(new_lifetime)]),
           self |-> self ]
    ELSE [ panicked |-> FALSE, value |-> Some(self), self |-> self ]

\* with_lifetime asserting that the indirection is a Ref.
with_lifetime_ref_only(self, new_lifetime) ==
    IF self.kind = "NonVoid" /\ self.indirection.kind = "Ref"
          /\ self.indirection.lifetime = None
    THEN [ panicked |-> FALSE,
           value |-> Some([self EXCEPT !.indirection.lifetime =
                                          Some(new_lifetime)]),
           self |-> self ]
    ELSE [ panicked |-> TRUE, value |-> None, self |-> self ]

\* with_lifetime taking &mut self and setting the lifetime in place, without
\* the clone.
with_lifetime_in_place(self, new_lifetime) ==
    IF self.kind = "NonVoid" /\ self.indirection.kind = "Ref"
    THEN IF self.indirection.lifetime = None
         THEN LET r == [self EXCEPT !.indirection.lifetime = Some(new_lifetime)]
              IN [ panicked |-> FALSE, value |-> Some(r), self |-> r ]
         ELSE [ panicked |-> TRUE, value |-> None, self |-> self ]
    ELSE [ panicked |-> FALSE, value |-> Some(self), self |-> self ]

\* RustType::with_lifetime(&self, new_lifetime). The result records the value
\* returned (none when the assert fires) and the receiver after the call.
with_lifetime(self, new_lifetime) ==
    LET r == self   \* let mut r = self.clone()
    IN IF r.kind = "NonVoid" /\ r.indirection.kind = "Ref"
       THEN IF r.indirection.lifetime = None
            THEN [ panicked |-> FALSE,
                   value |-> Some([r EXCEPT !.indirection.lifetime =
                                                Some(new_lifetime)]),
                   self |-> self ]
            ELSE [ panicked |-> TRUE, value |-> None, self |-> self ]
       ELSE [ panicked |-> FALSE, value |-> Some(r), self |-> self ]

\* vals[1] is the input (from = 0); vals[j].from is the index of the value
\* the call that returned vals[j] was made on.
TypeInit ==
    /\ vals \in { << [ty |-> t, from |-> 0] >> : t \in RustType }
    /\ lastCall = None
    /\ captionRes = None
    /\ typePanic = FALSE

TypeIdle ==
    /\ vals = << [ty |-> Void, from |-> 0] >>
    /\ lastCall = None
    /\ captionRes = None
    /\ typePanic = FALSE

\* vals[i].ty.with_lifetime(l)
WithLifetime(i, l) ==
    /\ ~typePanic
    /\ Len(vals) <= MaxCalls
    /\ LET o == with_lifetime(vals[i].ty, l)
           kept == [vals EXCEPT ![i].ty = o.self]
       IN /\ vals' = IF o.panicked THEN kept
                     ELSE Append(kept, [ty |-> o.value[1], from |-> i])
          /\ lastCall' = Some([ recv |-> i, before |-> vals[i].ty,
                                new_lifetime |-> l, panicked |-> o.panicked,
                                ret |-> o.value ])
          /\ typePanic' = o.panicked
    /\ UNCHANGED <<captionRes, opVars, nameVars, pbVars>>

\* vals[i].ty.caption()
Caption(i) ==
    /\ ~typePanic
    /\ captionRes' = Some([of |-> vals[i].ty, result |-> caption(vals[i].ty)])
    /\ UNCHANGED <<vals, lastCall, typePanic, opVars, nameVars, pbVars>>

(***************************************************************************)
(* ritual_common/utils.rs: ProgressBar                                     *)
(***************************************************************************)
Threads == 1..NumThreads
Amounts == { 0, 1, 2 }          \* the n a caller passes to add
Counts == { 3, 10 }             \* the count a caller passes to new
Messages == { "", "Parsing" }   \* the message a caller passes to new

\* Length of the decimal rendering of n by format!("{}", n).
RECURSIVE DecLen(_)
DecLen(n) == IF n < 10 THEN 1 ELSE 1 + DecLen(n \div 10)

\* format!("{}: {} / {}", self.message, self.pos, self.count).len()
MessageLen(self) ==
    Len(self.message) + Len(": ") + DecLen(self.pos) + Len(" / ")
        + DecLen(self.count)

\* ProgressBar::new: the inner value after its first print().
ProgressBar_new(count, message) ==
    LET progress_bar == [ message |-> message, count |-> count, pos |-> 0,
                          last_line_len |-> 0 ]
    IN [progress_bar EXCEPT !.last_line_len = MessageLen(progress_bar)]

\* A lock that excludes nobody.
CanLock_no_exclusion(t) == TRUE

\* Mutex::lock returns only when no other guard of the mutex is alive.
CanLock(t) == holder = 0

\* `self.pos += n` of ProgressBarInner::inc: the value written back. pos is a
\* u64; the sums reached here stay far below 2^64, so the addition neither
\* wraps nor panics.
IncValue(read, n) == read + n

PBInit ==
    /\ inner \in { ProgressBar_new(c, m) : c \in Counts, m \in Messages }
    /\ holder = 0
    /\ poisoned = FALSE
    /\ pc = [t \in Threads |-> "idle"]
    /\ arg = [t \in Threads |-> 0]
    /\ tmp = [t \in Threads |-> 0]
    /\ calls = [t \in Threads |-> 0]
    /\ requested = 0

PBIdle ==
    /\ inner = ProgressBar_new(3, "")
    /\ holder = 0
    /\ poisoned = FALSE
    /\ pc = [t \in Threads |-> "idle"]
    /\ arg = [t \in Threads |-> 0]
    /\ tmp = [t \in Threads |-> 0]
    /\ calls = [t \in Threads |-> 0]
    /\ requested = 0

\* Thread t calls add(n) on its clone of the ProgressBar.
Add(t, n) ==
    /\ pc[t] = "idle"
    /\ calls[t] < MaxAdds
    /\ pc' = [pc EXCEPT ![t] = "lock"]
    /\ arg' = [arg EXCEPT ![t] = n]
    /\ calls' = [calls EXCEPT ![t] = @ + 1]
    /\ requested' = requested + n
    /\ UNCHANGED <<inner, holder, poisoned, tmp, opVars, nameVars, typeVars>>

\* self.0.lock().unwrap(): blocks while another guard is alive; on a poisoned
\* mutex lock() returns Err and unwrap panics, dropping the guard again.
Lock(t) ==
    /\ pc[t] = "lock"
    /\ CanLock(t)
    /\ IF poisoned
       THEN /\ pc' = [pc EXCEPT ![t] = "panicked"]
            /\ UNCHANGED holder
       ELSE /\ pc' = [pc EXCEPT ![t] = "read"]
            /\ holder' = t
    /\ UNCHANGED <<inner, poisoned, arg, tmp, calls, requested, opVars, nameVars, typeVars>>

\* inc, `self.pos += n`: read pos
IncRead(t) ==
    /\ pc[t] = "read"
    /\ tmp' = [tmp EXCEPT ![t] = inner.pos]
    /\ pc' = [pc EXCEPT ![t] = "write"]
    /\ UNCHANGED <<inner, holder, poisoned, arg, calls, requested>>
    /\ UNCHANGED <<opVars, nameVars, typeVars>>

\* inc, `self.pos += n`: write pos
IncWrite(t) ==
    /\ pc[t] = "write"
    /\ inner' = [inner EXCEPT !.pos = IncValue(tmp[t], arg[t])]
    /\ tmp' = [tmp EXCEPT ![t] = 0]
    /\ pc' = [pc EXCEPT ![t] = "print"]
    /\ UNCHANGED <<holder, poisoned, arg, calls, requested>>
    /\ UNCHANGED <<opVars, nameVars, typeVars>>

\* inc, `self.print()`. Writing to stdout can fail, and then print!/unwrap
\* panic: in clear_line (before last_line_len is assigned) or in the later
\* print!/flush (after it). The panic unwinds through the guard, which
\* poisons and releases the mutex.
InnerPrint(t, outcome) ==
    /\ pc[t] = "print"
    /\ inner' = IF outcome = "clear_line_fails" THEN inner
                ELSE [inner EXCEPT !.last_line_len = MessageLen(inner)]
    /\ IF outcome = "ok"
       THEN /\ pc' = [pc EXCEPT ![t] = "unlock"]
            /\ UNCHANGED <<holder, poisoned>>
       ELSE /\ pc' = [pc EXCEPT ![t] = "panicked"]
            /\ holder' = IF holder = t THEN 0 ELSE holder
            /\ poisoned' = TRUE
    /\ UNCHANGED <<arg, tmp, calls, requested, opVars, nameVars, typeVars>>

PrintOutcomes == { "ok", "clear_line_fails", "print_fails" }

\* The guard, a temporary of the statement in add, is dropped; add returns.
Unlock(t) ==
    /\ pc[t] = "unlock"
    /\ holder' = IF holder = t THEN 0 ELSE holder
    /\ pc' = [pc EXCEPT ![t] = "idle"]
    /\ UNCHANGED <<inner, poisoned, arg, tmp, calls, requested, opVars, nameVars, typeVars>>

(***************************************************************************)
(* Specifications                                                          *)
(***************************************************************************)
InitOp == OpInit /\ NameIdle /\ TypeIdle /\ PBIdle

NextOp ==
    \/ \E s \in Slots : Info(s)
    \/ \E s \in Slots : CName(s)

SpecOp == InitOp /\ [][NextOp]_vars

InitName == OpIdle /\ NameInit /\ TypeIdle /\ PBIdle

NextName ==
    \/ New
    \/ CrateName
    \/ LastName
    \/ \E c \in Scopes : FullName(c)

SpecName == InitName /\ [][NextName]_vars

InitType == OpIdle /\ NameIdle /\ TypeInit /\ PBIdle

NextType == \E i \in 1..Len(vals), l \in Lifetimes : WithLifetime(i, l)

SpecType == InitType /\ [][NextType]_vars

NextCaption == \E i \in 1..Len(vals) : Caption(i)

SpecCaption == InitType /\ [][NextCaption]_vars

InitPB == OpIdle /\ NameIdle /\ TypeIdle /\ PBInit

NextPB ==
    \E t \in Threads :
        \/ \E n \in Amounts : Add(t, n)
        \/ Lock(t)
        \/ IncRead(t)
        \/ IncWrite(t)
        \/ \E o \in PrintOutcomes : InnerPrint(t, o)
        \/ Unlock(t)

SpecPB == InitPB /\ [][NextPB]_vars

(***************************************************************************)
(* Properties of CppOperator (checked under SpecOp)                        *)
(***************************************************************************)
UnaryOperators ==
    { "UnaryPlus", "UnaryMinus", "LogicalNot", "BitwiseNot", "Indirection",
      "AddressOf", "PrefixIncrement", "PrefixDecrement",
      "StructureDereference" }

PostfixOperators == { "PostfixIncrement", "PostfixDecrement" }

BinaryOperators ==
    { "Addition", "Subtraction", "Multiplication", "Division", "Modulo",
      "EqualTo", "NotEqualTo", "GreaterThan", "LessThan",
      "GreaterThanOrEqualTo", "LessThanOrEqualTo",
      "LogicalAnd", "LogicalOr",
      "BitwiseAnd", "BitwiseOr", "BitwiseXor", "BitwiseLeftShift",
      "BitwiseRightShift",
      "AdditionAssignment", "SubtractionAssignment",
      "MultiplicationAssignment", "DivisionAssignment", "ModuloAssignment",
      "BitwiseAndAssignment", "BitwiseOrAssignment", "BitwiseXorAssignment",
      "BitwiseLeftShiftAssignment", "BitwiseRightShiftAssignment",
      "Assignment", "Subscript", "Comma", "PointerToMember",
      "New", "NewArray", "Delete", "DeleteArray" }

\* C1: info returns a well-formed OperatorInfo for every operator, and the
\* result obeys the arity law: unary operators 1, binary operators 2,
\* postfix increment/decrement 2, FunctionCall 0 and the only one with
\* variable arity, Conversion 1 and the only one without suffix.
C1_ArityLaw ==
    \A s \in Slots :
        infoRes[s] # None =>
            LET v == operands[s].variant
                r == infoRes[s][1]
            IN /\ v \in UnaryOperators \cup BinaryOperators
                        \cup PostfixOperators \cup { "FunctionCall", "Conversion" }
               /\ r.arguments_count \in Nat
               /\ r.allows_variable_arguments \in BOOLEAN
               /\ Len(r.function_name_suffix) <= 1
               /\ v \in UnaryOperators => r.arguments_count = 1
               /\ v \in BinaryOperators => r.arguments_count = 2
               /\ v \in PostfixOperators => r.arguments_count = 2
               /\ v = "FunctionCall" =>
                     r.arguments_count = 0 /\ r.allows_variable_arguments
               /\ r.allows_variable_arguments => v = "FunctionCall"
               /\ v = "Conversion" =>
                     r.arguments_count = 1 /\ r.function_name_suffix = None
               /\ r.function_name_suffix = None => v = "Conversion"

C1_Witness ==
    /\ operands[1].variant = "Conversion" /\ infoRes[1] # None
    /\ operands[2].variant = "FunctionCall" /\ infoRes[2] # None

\* C2 (as claimed): c_name returns a token for every operator it is called
\* on, and two distinct operators never get the same token.
C2_CNameReturnsDistinctTokens ==
    /\ \A s \in Slots :
          cnameRes[s].status # "NotCalled" => cnameRes[s].status = "Returned"
    /\ ( /\ cnameRes[1].status = "Returned"
         /\ cnameRes[2].status = "Returned"
         /\ operands[1] # operands[2] )
       => cnameRes[1].token # cnameRes[2].token

SharedSymbolPairs ==
    { <<"PrefixIncrement", "PostfixIncrement">>,
      <<"PrefixDecrement", "PostfixDecrement">>,
      <<"UnaryPlus", "Addition">>, <<"UnaryMinus", "Subtraction">>,
      <<"Indirection", "Multiplication">>, <<"AddressOf", "BitwiseAnd">> }

\* C10: two distinct operators other than Conversion never get the same
\* (suffix, arity) pair from info; the prefix/postfix and unary/binary pairs
\* that share a symbol get the same suffix with arity 1 and 2.
C10_SymbolArityInjective ==
    (infoRes[1] # None /\ infoRes[2] # None) =>
        LET a == operands[1]
            b == operands[2]
            ra == infoRes[1][1]
            rb == infoRes[2][1]
        IN /\ (a.variant # "Conversion" /\ b.variant # "Conversion" /\ a # b)
                => <<ra.function_name_suffix, ra.arguments_count>>
                     # <<rb.function_name_suffix, rb.arguments_count>>
           /\ <<a.variant, b.variant>> \in SharedSymbolPairs
                => /\ ra.function_name_suffix = rb.function_name_suffix
                   /\ ra.arguments_count = 1
                   /\ rb.arguments_count = 2

C10_Witness ==
    /\ operands[1].variant = "PrefixIncrement" /\ infoRes[1] # None
    /\ operands[2].variant = "PostfixIncrement" /\ infoRes[2] # None

(***************************************************************************)
(* Properties of RustName (checked under SpecName)                         *)
(***************************************************************************)
\* The segments p[k], p[k+1], ... separated by "::".
RECURSIVE JoinedFrom(_, _)
JoinedFrom(p, k) ==
    IF k > Len(p) THEN ""
    ELSE IF k = Len(p) THEN p[k]
    ELSE p[k] \o "::" \o JoinedFrom(p, k + 1)

\* C5: full_name is "::" and the segments after the first when the scope is
\* present, the name has more than one segment and the scope is its first
\* segment; otherwise all segments joined by "::". crate_name is the first
\* segment exactly for names of more than one segment; last_name is the last
\* segment.
C5_FullName ==
    name # None =>
        LET p == name[1].parts
        IN /\ nameCalls.full # None =>
                LET c == nameCalls.full[1].current_crate
                    r == nameCalls.full[1].result
                IN /\ IF c # None /\ Len(p) > 1 /\ c[1] = p[1]
                      THEN r = "::" \o JoinedFrom(p, 2)
                      ELSE r = JoinedFrom(p, 1)
                   /\ (p = <<"foo", "Bar">> /\ c = Some("foo")) => r = "::Bar"
                   /\ (p = <<"foo", "Bar">> /\ c = Some("other")) => r = "foo::Bar"
                   /\ (p = <<"foo", "Bar">> /\ c = None) => r = "foo::Bar"
                   /\ (p = <<"foo">> /\ c = Some("foo")) => r = "foo"
           /\ nameCalls.crate # None =>
                nameCalls.crate[1] = IF Len(p) > 1 THEN Some(p[1]) ELSE None
           /\ nameCalls.last # None => nameCalls.last[1] = p[Len(p)]

C5_Witness ==
    /\ name = Some([parts |-> <<"foo", "Bar">>])
    /\ nameCalls.full = Some([current_crate |-> Some("foo"), result |-> "::Bar"])
    /\ nameCalls.crate = Some(Some("foo"))
    /\ nameCalls.last = Some("Bar")

\* C6: once RustName::new has been called, it has panicked and returned
\* nothing if the segment list is empty, and otherwise it has returned a name
\* holding exactly the segments given; a name it returned is never empty.
C6_NewRejectsEmpty ==
    /\ (name # None \/ namePanic) =>
          IF parts = << >>
          THEN namePanic /\ name = None
          ELSE ~namePanic /\ name = Some([parts |-> parts])
    /\ name # None => Len(name[1].parts) > 0

C6_Witness == parts = << >> /\ namePanic /\ name = None

(***************************************************************************)
(* Properties of RustType::caption (checked under SpecCaption)             *)
(***************************************************************************)
RECURSIVE ExpectedCaption(_)
\* The captions of args[k], args[k+1], ... separated by underscores; an
\* argument without caption (Void) contributes the empty string.
RECURSIVE UnderscoreJoined(_, _)
UnderscoreJoined(args, k) ==
    IF k > Len(args) THEN ""
    ELSE LET c == ExpectedCaption(args[k])
             text == IF c = None THEN "" ELSE c[1]
         IN IF k = Len(args) THEN text
            ELSE text \o "_" \o UnderscoreJoined(args, k + 1)

ExpectedCaption(t) ==
    IF t.kind = "Void" THEN None
    ELSE LET last == t.base.parts[Len(t.base.parts)]
         IN IF t.generic_arguments = None THEN Some(last)
            ELSE Some(last \o "_" \o UnderscoreJoined(t.generic_arguments[1], 1))

\* C7: caption is absent for Void, the last base segment for a type without
\* generic arguments, and otherwise the last base segment, an underscore and
\* the captions of the generic arguments joined by underscores; is_const,
\* indirection, is_option and the other base segments do not matter.
C7_Caption ==
    captionRes # None =>
        LET t == captionRes[1].of
            r == captionRes[1].result
        IN /\ r = ExpectedCaption(t)
           /\ t.kind = "Void" => r = None
           /\ t.kind = "NonVoid" =>
                /\ r # None
                /\ t.generic_arguments = None =>
                      r = Some(t.base.parts[Len(t.base.parts)])
                /\ (t.base.parts = <<"Vec">> /\ t.generic_arguments = Some(<<I32>>))
                      => r = Some("Vec_I32")
                /\ (t.base.parts = <<"foo", "Widget">> /\ t.generic_arguments = None)
                      => r = Some("Widget")
                /\ \A b \in BaseNames, c \in BOOLEAN, o \in BOOLEAN,
                      i \in RustTypeIndirection :
                      b.parts[Len(b.parts)] = t.base.parts[Len(t.base.parts)]
                        => caption(NonVoid(b, t.generic_arguments, c, i, o)) = r

C7_Witness ==
    /\ captionRes # None
    /\ captionRes[1].of.kind = "NonVoid"
    /\ captionRes[1].of.base.parts = <<"std", "Vec">>
    /\ captionRes[1].of.indirection.kind = "Ref"
    /\ captionRes[1].result = Some("Vec_I32_Vec_I32")

(***************************************************************************)
(* Properties of RustType::with_lifetime (checked under SpecType)          *)
(***************************************************************************)
IsRef(t) == t.kind = "NonVoid" /\ t.indirection.kind = "Ref"

\* C3: with_lifetime on a Ref without lifetime returns a value carrying
\* exactly the new lifetime; on a Ref with a lifetime it panics and returns
\* nothing. So no value of a chain was obtained from a Ref that already had
\* a lifetime: a lifetime goes from absent to present once and is never
\* replaced.
C3_LifetimeAssignedOnce ==
    /\ lastCall # None =>
          LET c == lastCall[1]
          IN IsRef(c.before) =>
                IF c.before.indirection.lifetime = None
                THEN /\ ~c.panicked /\ ~typePanic
                     /\ c.ret # None
                     /\ c.ret[1].indirection =
                          [kind |-> "Ref", lifetime |-> Some(c.new_lifetime)]
                     /\ vals[Len(vals)] = [ty |-> c.ret[1], from |-> c.recv]
                ELSE c.panicked /\ typePanic /\ c.ret = None
    /\ \A j \in 1..Len(vals) :
          (vals[j].from # 0 /\ IsRef(vals[vals[j].from].ty)) =>
              /\ vals[vals[j].from].ty.indirection.lifetime = None
              /\ IsRef(vals[j].ty)
              /\ vals[j].ty.indirection.lifetime # None

C3_Witness ==
    /\ Len(vals) = 2
    /\ IsRef(vals[1].ty) /\ vals[1].ty.indirection.lifetime = None
    /\ vals[2].ty.indirection.lifetime = Some("a")
    /\ lastCall # None /\ lastCall[1].recv = 2 /\ lastCall[1].panicked

\* C4 (as claimed): with_lifetime on a type that is not a Ref (indirection
\* None, Ptr or PtrPtr, or Void) fails and returns nothing.
C4_NonRefFails ==
    lastCall # None =>
        (~IsRef(lastCall[1].before) =>
            lastCall[1].panicked /\ lastCall[1].ret = None)

\* C4 (amended): with_lifetime on a type that is not a Ref does not fail; it
\* returns a value equal to the one it was called on.
C4_NonRefUnchanged ==
    lastCall # None =>
        (~IsRef(lastCall[1].before) =>
            /\ ~lastCall[1].panicked /\ ~typePanic
            /\ lastCall[1].ret = Some(lastCall[1].before)
            /\ vals[Len(vals)].ty = lastCall[1].before)

C4_Witness ==
    /\ lastCall # None
    /\ lastCall[1].before.kind = "NonVoid"
    /\ lastCall[1].before.indirection.kind = "PtrPtr"
    /\ lastCall[1].ret = Some(lastCall[1].before)

\* C9: with_lifetime leaves the value it is called on as it was, and a value
\* it returns equals that value in everything but the lifetime of a Ref.
C9_PureTransform ==
    lastCall # None =>
        LET c == lastCall[1]
        IN /\ vals[c.recv].ty = c.before
           /\ c.ret # None =>
                LET r == c.ret[1]
                IN /\ r.kind = c.before.kind
                   /\ r.kind = "NonVoid" =>
                        /\ r.base = c.before.base
                        /\ r.generic_arguments = c.before.generic_arguments
                        /\ r.is_const = c.before.is_const
                        /\ r.is_option = c.before.is_option
                        /\ r.indirection.kind = c.before.indirection.kind
                        /\ r.indirection.kind # "Ref" =>
                              r.indirection = c.before.indirection

C9_Witness ==
    /\ lastCall # None
    /\ ~lastCall[1].panicked
    /\ IsRef(lastCall[1].before)
    /\ lastCall[1].before.generic_arguments # None
    /\ lastCall[1].ret # Some(lastCall[1].before)
    /\ vals[lastCall[1].recv].ty = lastCall[1].before

(***************************************************************************)
(* Properties of ProgressBar (checked under SpecPB)                        *)
(***************************************************************************)
AllReturned == \A t \in Threads : pc[t] = "idle"

InsideLock == { "read", "write", "print", "unlock" }

\* C8: add is atomic. A thread inside inc holds the mutex, nothing changes
\* pos between the read and the write of `self.pos += n`, once every call
\* has returned pos is the sum of all n passed to add, and no step changes
\* count or message.
C8_AtomicCounter ==
    /\ [](AllReturned => inner.pos = requested)
    /\ [](\A t \in Threads : pc[t] \in InsideLock => holder = t)
    /\ [](\A t \in Threads : pc[t] = "write" => tmp[t] = inner.pos)
    /\ [][inner'.count = inner.count /\ inner'.message = inner.message]_vars

C8_Witness ==
    /\ AllReturned
    /\ \A t \in Threads : calls[t] = MaxAdds
    /\ inner.pos = requested
    /\ requested >= 3

====
